---- MODULE Spec2Model ----
(***************************************************************************)
(* A model of yt-transcript (src/yt_transcript/cli.py): the chunker, the   *)
(* token ledger, the transform invoker, the chunked cleanup pipeline and   *)
(* the command-line driver that saves the outputs.                         *)
(*                                                                         *)
(* Text is a sequence of one-character strings, so that splitting on       *)
(* whitespace and joining with a separator are computed, not assumed.      *)
(***************************************************************************)
EXTENDS Integers, Sequences, FiniteSets, TLC

(* ------------------------------ bounds -------------------------------- *)

\* Words per chunk. The program sets CHUNK_SIZE_WORDS = 3000 (cli.py:16);
\* the model scales it down so that transcripts of a few words split into
\* several chunks.
CHUNK_SIZE_WORDS == 2

\* Longest generated transcript, in words, of the cleanup specifications.
MaxWords == 6

\* Longest text, in characters, and largest chunk size given to
\* split_into_chunks on its own.
MaxLen == 6
MaxChunk == 3

\* Largest start_chunk given to clean_transcript on its own (smallest: -1).
MaxStart == 4

\* Processes started one after the other over the same output directory.
MaxRuns == 2

\* Ledger on its own: largest token count of one usage, number of add calls.
MaxTok == 2
MaxAdds == 3

(* --------------------------- configuration ---------------------------- *)

CLEANUP_MODEL == "claude-haiku-4-5-20251001"
SMART_MODEL == "claude-sonnet-4-5-20250929"

\* Pricing per million tokens, in cents.
HAIKU_INPUT_COST == 80
HAIKU_OUTPUT_COST == 400
SONNET_INPUT_COST == 300
SONNET_OUTPUT_COST == 1500

(* ------------------------------- text --------------------------------- *)

\* The characters str.split() treats as separators (those the model uses).
Whitespace == {" ", "\n", "\t"}

\* str.split() with no argument: the maximal runs of non-whitespace
\* characters, in order; cur is the word being read, acc the words so far.
RECURSIVE SplitWords(_, _, _)
SplitWords(text, cur, acc) ==
    IF text = <<>>
    THEN IF cur = <<>> THEN acc ELSE Append(acc, cur)
    ELSE IF Head(text) \in Whitespace
         THEN SplitWords(Tail(text), <<>>,
                         IF cur = <<>> THEN acc ELSE Append(acc, cur))
         ELSE SplitWords(Tail(text), Append(cur, Head(text)), acc)

Split(text) == SplitWords(text, <<>>, <<>>)

\* sep.join(parts)
RECURSIVE Join(_, _)
Join(sep, parts) ==
    IF parts = <<>> THEN <<>>
    ELSE IF Len(parts) = 1 THEN parts[1]
    ELSE parts[1] \o sep \o Join(sep, Tail(parts))

\* words[lo : hi] with 0 <= lo and 0 <= hi (a slice stops at the end).
Slice(words, lo, hi) ==
    SubSeq(words, lo + 1, IF hi < Len(words) THEN hi ELSE Len(words))

\* range(0, stop, step) for step # 0, as a sequence.
Range0(stop, step) ==
    IF step > 0
    THEN [n \in 1..((stop + step - 1) \div step) |-> (n - 1) * step]
    ELSE <<>>

\* A mutant: the range runs one past the end, so a text whose length is a
\* multiple of the chunk size gets a trailing empty chunk.
split_into_chunks_extra(text, chunk_size) ==
    LET words == Split(text)
        starts == Range0(Len(words) + 1, chunk_size)
    IN  [n \in 1..Len(starts) |->
            Join(<<" ">>, Slice(words, starts[n], starts[n] + chunk_size))]

\* A mutant: each chunk takes one word too few.
split_into_chunks_short(text, chunk_size) ==
    LET words == Split(text)
        starts == Range0(Len(words), chunk_size)
    IN  [n \in 1..Len(starts) |->
            Join(<<" ">>, Slice(words, starts[n], starts[n] + chunk_size - 1))]

\* split_into_chunks for chunk_size # 0 (range() raises on a zero step).
split_into_chunks(text, chunk_size) ==
    LET words == Split(text)
        starts == Range0(Len(words), chunk_size)
    IN  [n \in 1..Len(starts) |->
            Join(<<" ">>, Slice(words, starts[n], starts[n] + chunk_size))]

\* "\n\n".join(cleaned_parts) with one newline only: a mutant.
JoinParts_single(parts) == Join(<<"\n">>, parts)

\* "\n\n".join(cleaned_parts)
JoinParts(parts) == Join(<<"\n", "\n">>, parts)

(* ------------------------------ ledger -------------------------------- *)

\* TokenTracker.__init__
NewTracker ==
    [haiku_input |-> 0, haiku_output |-> 0, sonnet_input |-> 0, sonnet_output |-> 0]

\* TokenTracker.add
TrackerAdd(t, usage, model) ==
    IF model = CLEANUP_MODEL
    THEN [t EXCEPT !.haiku_input = @ + usage.input_tokens,
                   !.haiku_output = @ + usage.output_tokens]
    ELSE [t EXCEPT !.sonnet_input = @ + usage.input_tokens,
                   !.sonnet_output = @ + usage.output_tokens]

\* A mutant: the two prices of the cleanup model are exchanged.
total_cost_swapped(t) ==
    t.haiku_input * HAIKU_OUTPUT_COST + t.haiku_output * HAIKU_INPUT_COST
    + t.sonnet_input * SONNET_INPUT_COST + t.sonnet_output * SONNET_OUTPUT_COST

\* TokenTracker.total_cost, in cents per million tokens (the code divides
\* each term by 1_000_000 to get dollars per token).
total_cost(t) ==
    t.haiku_input * HAIKU_INPUT_COST + t.haiku_output * HAIKU_OUTPUT_COST
    + t.sonnet_input * SONNET_INPUT_COST + t.sonnet_output * SONNET_OUTPUT_COST

\* TokenTracker.report: what it prints.
Report(t) ==
    [total_in |-> t.haiku_input + t.sonnet_input,
     total_out |-> t.haiku_output + t.sonnet_output,
     cost |-> total_cost(t)]

(* ----------------------- the text-generation API ----------------------- *)

\* The test transform of the specification's example: upper-casing.
UpperChar(c) ==
    CASE c = "a" -> "A" [] c = "b" -> "B" [] c = "c" -> "C"
      [] c = "d" -> "D" [] c = "e" -> "E" [] c = "f" -> "F"
      [] OTHER -> c

Upper(text) == [n \in 1..Len(text) |-> UpperChar(text[n])]

\* The prompts: an instruction followed by the text it is about.
Prompt(instr, body) == [instr |-> instr, body |-> body]

\* Texts the service may generate for a prompt: for a cleanup prompt the
\* upper-cased input or something unrelated, else a text naming the request.
Texts(prompt) ==
    IF prompt.instr \in {"whole", "segment"}
    THEN {Upper(prompt.body), <<"Z">>}
    ELSE {<<prompt.instr>>}

\* The usage counts a response may carry.
Usages ==
    {[input_tokens |-> 3, output_tokens |-> 1],
     [input_tokens |-> 5, output_tokens |-> 2]}

\* What client.messages.create may do: raise anthropic.APIError (rate limit,
\* connection or server error), or return a message with usage and content;
\* a malformed message has an empty content list.
Responses(prompt) ==
    {[error |-> TRUE, usage |-> [input_tokens |-> 0, output_tokens |-> 0],
      content |-> <<>>]}
    \cup {[error |-> FALSE, usage |-> u, content |-> c] :
            u \in Usages, c \in {<<>>} \cup {<<t>> : t \in Texts(prompt)}}

\* call_claude: the ledger after the call, the exception raised ("none" when
\* it returns), the text returned and the usage the response reported.
call_claude(t, resp, model) ==
    IF resp.error
    THEN [tracker |-> t, raised |-> "APIError", text |-> <<>>,
          usage |-> resp.usage]
    ELSE LET t2 == TrackerAdd(t, resp.usage, model)
         IN  IF resp.content = <<>>
             THEN [tracker |-> t2, raised |-> "IndexError", text |-> <<>>,
                   usage |-> resp.usage]
             ELSE [tracker |-> t2, raised |-> "none", text |-> resp.content[1],
                   usage |-> resp.usage]

\* One entry of the log of calls sent to the service: index is the chunk
\* index of a cleanup call, -1 for the other calls.
LogEntry(index, prompt, model, r) ==
    [index |-> index, prompt |-> prompt, model |-> model,
     raised |-> r.raised, text |-> r.text, usage |-> r.usage]

(* ------------------------------ inputs -------------------------------- *)

Alphabet == <<"a", "b", "c", "d", "e", "f">>

\* The text of n one-letter words, a b c ..., separated by single spaces.
WordsText(n) ==
    Join(<<" ">>, [k \in 1..n |-> <<Alphabet[((k - 1) % 6) + 1]>>])

\* The raw text of the specification's end-to-end example.
Example == <<"a", " ", "b", " ", "c", " ", "d", " ", "e", " ", "f">>

\* Raw transcripts of the cleanup specifications: none to MaxWords words,
\* the example, a whitespace-only text and one with irregular whitespace.
RawTexts ==
    {WordsText(n) : n \in 0..MaxWords}
    \cup {Example, <<" ", "\n">>,
          <<" ", "a", "b", " ", " ", "c", "\n", "d", " ">>}

\* Every text of at most n characters over a letter pair and two separators.
TextsUpTo(n) ==
    UNION {[1..m -> {"a", "b", " ", "\n"}] : m \in 0..n}

(* ------------------------------- state -------------------------------- *)

VARIABLES
    tracker,        \* the module-level TokenTracker
    pc,             \* where main is
    cpc,            \* where clean_transcript (or a function run alone) is
    args,           \* the parsed command line and the environment's key
    raw_text,       \* raw_text
    chunk_size,     \* chunk_size of split_into_chunks
    start_chunk,    \* start_chunk of clean_transcript
    chunks,         \* chunks
    cleaned_parts,  \* cleaned_parts
    i,              \* the loop index of clean_transcript
    ret,            \* what clean_transcript returned
    exc,            \* the exception clean_transcript raised
    transcript,     \* transcript of main
    files,          \* the output directory: file name -> text
    calls,          \* the calls this process sent to the service, in order
    told,           \* per process: the "Partial cleanup" message, if printed
    run,            \* the number of the running process
    reported        \* what tracker.report() printed

vars ==
    <<tracker, pc, cpc, args, raw_text, chunk_size, start_chunk, chunks,
      cleaned_parts, i, ret, exc, transcript, files, calls, told, run, reported>>

FileNames == {"raw", "md", "explained", "summary", "tldr"}
NoFile == <<"<no file>">>
NoFiles == [f \in FileNames |-> NoFile]
NoRet == [text |-> <<>>, completed |-> -1, total |-> -1]
NoTold == [completed |-> -1, total |-> -1]
NoReport == [total_in |-> -1, total_out |-> -1, cost |-> -1]
NoArgs ==
    [raw |-> FALSE, explain |-> FALSE, summary |-> FALSE, tldr |-> FALSE,
     from_raw |-> FALSE, has_key |-> TRUE]

total == Len(chunks)

(* -------------------------- clean_transcript --------------------------- *)

\* A mutant: a resume point past the last chunk is ignored.
ShouldCarry_inrange(index, start) == index < start /\ start < Len(chunks)

\* A mutant of the carry-through test: off by one.
ShouldCarry_upto(index, start) == index <= start

\* if i < start_chunk
ShouldCarry(index, start) == index < start

\* model=CLEANUP_MODEL of the single-chunk call
SingleModel == CLEANUP_MODEL

\* A mutant: the partial outcome counts the failing chunk as completed.
PartialOutcome_next(parts, index, n) ==
    [text |-> JoinParts(parts), completed |-> index + 1, total |-> n]

\* partial = "\n\n".join(cleaned_parts); return partial, i, total
PartialOutcome(parts, index, n) ==
    [text |-> JoinParts(parts), completed |-> index, total |-> n]

\* A mutant: the handler does not return, and the chunk is tried again.
AfterPartial_retry == "loop"

\* Where clean_transcript is after the return of its handler.
AfterPartial == "returned"

\* chunks = split_into_chunks(raw_text); total = len(chunks); cleaned_parts = []
CleanBegin ==
    /\ cpc = "entry"
    /\ chunks' = split_into_chunks(raw_text, CHUNK_SIZE_WORDS)
    /\ cleaned_parts' = <<>>
    /\ i' = 0
    /\ cpc' = IF Len(chunks') = 1 THEN "single" ELSE "loop"
    /\ UNCHANGED <<tracker, pc, args, raw_text, chunk_size, start_chunk, ret,
                   exc, transcript, files, calls, told, run, reported>>

\* if total == 1: one call on the whole text; its exceptions propagate.
CleanSingle ==
    /\ cpc = "single"
    /\ LET prompt == Prompt("whole", chunks[1])
       IN  \E resp \in Responses(prompt) :
             LET r == call_claude(tracker, resp, SingleModel)
             IN  /\ tracker' = r.tracker
                 /\ calls' = Append(calls, LogEntry(0, prompt, SingleModel, r))
                 /\ IF r.raised = "none"
                    THEN /\ ret' = [text |-> r.text, completed |-> total,
                                    total |-> total]
                         /\ cpc' = "returned"
                         /\ exc' = exc
                    ELSE /\ cpc' = "raised"
                         /\ exc' = r.raised
                         /\ ret' = ret
    /\ UNCHANGED <<pc, args, raw_text, chunk_size, start_chunk, chunks,
                   cleaned_parts, i, transcript, files, told, run, reported>>

\* One iteration of the loop over the chunks: the carry-through of a chunk
\* below start_chunk, or the try block with the call and the handler of
\* anthropic.APIError; any other exception leaves clean_transcript.
CleanLoop ==
    /\ cpc = "loop"
    /\ i < total
    /\ IF ShouldCarry(i, start_chunk)
       THEN /\ cleaned_parts' = Append(cleaned_parts, chunks[i + 1])
            /\ i' = i + 1
            /\ UNCHANGED <<tracker, calls, cpc, ret, exc>>
       ELSE LET prompt == Prompt("segment", chunks[i + 1])
            IN  \E resp \in Responses(prompt) :
                  LET r == call_claude(tracker, resp, CLEANUP_MODEL)
                  IN  /\ tracker' = r.tracker
                      /\ calls' = Append(calls,
                                         LogEntry(i, prompt, CLEANUP_MODEL, r))
                      /\ \/ /\ r.raised = "none"
                            /\ cleaned_parts' = Append(cleaned_parts, r.text)
                            /\ i' = i + 1
                            /\ UNCHANGED <<cpc, ret, exc>>
                         \/ /\ r.raised = "APIError"
                            /\ cleaned_parts # <<>>
                            /\ ret' = PartialOutcome(cleaned_parts, i, total)
                            /\ cpc' = AfterPartial
                            /\ UNCHANGED <<cleaned_parts, i, exc>>
                         \/ /\ r.raised = "APIError"
                            /\ cleaned_parts = <<>>
                            /\ cpc' = "raised"
                            /\ exc' = r.raised
                            /\ UNCHANGED <<cleaned_parts, i, ret>>
                         \/ /\ r.raised \notin {"none", "APIError"}
                            /\ cpc' = "raised"
                            /\ exc' = r.raised
                            /\ UNCHANGED <<cleaned_parts, i, ret>>
    /\ UNCHANGED <<pc, args, raw_text, chunk_size, start_chunk, chunks,
                   transcript, files, told, run, reported>>

\* return "\n\n".join(cleaned_parts), total, total
CleanFinish ==
    /\ cpc = "loop"
    /\ i >= total
    /\ ret' = [text |-> JoinParts(cleaned_parts), completed |-> total,
               total |-> total]
    /\ cpc' = "returned"
    /\ UNCHANGED <<tracker, pc, args, raw_text, chunk_size, start_chunk, chunks,
                   cleaned_parts, i, exc, transcript, files, calls, told, run,
                   reported>>

CleanNext ==
    \/ CleanBegin
    \/ CleanSingle
    \/ CleanLoop
    \/ CleanFinish

\* clean_transcript(raw_text, start_chunk) called on its own.
InitClean ==
    /\ tracker = NewTracker
    /\ pc = "none"
    /\ cpc = "entry"
    /\ args = NoArgs
    /\ raw_text \in RawTexts
    /\ chunk_size = CHUNK_SIZE_WORDS
    /\ start_chunk \in -1..MaxStart
    /\ chunks = <<>>
    /\ cleaned_parts = <<>>
    /\ i = 0
    /\ ret = NoRet
    /\ exc = "none"
    /\ transcript = <<>>
    /\ files = NoFiles
    /\ calls = <<>>
    /\ told = <<NoTold>>
    /\ run = 1
    /\ reported = NoReport

SpecClean == InitClean /\ [][CleanNext]_vars

(* --------------------- properties of clean_transcript ------------------ *)

NoFailure == \A m \in 1..Len(calls) : calls[m].raised = "none"

LastCallFailed == Len(calls) >= 1 /\ calls[Len(calls)].raised # "none"

\* How many calls were sent for chunk index n.
SentCount(n) == Cardinality({m \in 1..Len(calls) : calls[m].index = n})

\* The text returned by the call for chunk index n.
TextFor(n) ==
    IF \E m \in 1..Len(calls) : calls[m].index = n
    THEN calls[CHOOSE m \in 1..Len(calls) : calls[m].index = n].text
    ELSE <<"<not sent>">>

\* Chunks 0..f-1 were cleaned, in order, and the call for chunk f failed.
FailedAt(f) ==
    /\ Len(calls) = f + 1
    /\ \A m \in 1..f : calls[m].index = m - 1 /\ calls[m].raised = "none"
    /\ calls[f + 1].index = f
    /\ calls[f + 1].raised # "none"

\* C1: when chunks 0..f-1 of k >= 2 are cleaned and the call for chunk f,
\* 0 < f < k, fails in any way the service can fail, clean_transcript returns
\* (partial, f, k), the partial being the f cleaned texts in order.
C1_PartialFailure ==
    \A f \in 1..(total - 1) :
        (total >= 2 /\ FailedAt(f)) =>
            /\ cpc = "returned"
            /\ ret.completed = f
            /\ ret.total = total
            /\ Len(cleaned_parts) = f
            /\ \A m \in 1..f : cleaned_parts[m] = calls[m].text
            /\ ret.text = Join(<<"\n", "\n">>, [m \in 1..f |-> calls[m].text])

\* C2: a failure on chunk 0 with nothing collected and start_chunk = 0 leaves
\* clean_transcript as an exception, with no outcome; a failure when a part
\* is already collected gives a partial outcome and no exception.
C2_NoProgress ==
    /\ (LastCallFailed /\ calls[Len(calls)].index = 0 /\ cleaned_parts = <<>>
        /\ start_chunk = 0)
          => (cpc = "raised" /\ ret = NoRet)
    /\ (LastCallFailed /\ cleaned_parts # <<>>)
          => (cpc = "returned" /\ ret.completed < ret.total)

\* What a run without failure owes a resume point: chunks below start_chunk
\* are in the output as they are and were not sent, the others were sent once
\* each, with their own text, and the output holds what the calls returned.
ResumeOutcome ==
    /\ \A n \in 0..(total - 1) :
          SentCount(n) = IF n < start_chunk THEN 0 ELSE 1
    /\ \A m \in 1..Len(calls) :
          /\ calls[m].index \in 0..(total - 1)
          /\ calls[m].prompt.body = chunks[calls[m].index + 1]
    /\ ret.text =
          Join(<<"\n", "\n">>,
               [n \in 1..total |->
                   IF n - 1 < start_chunk THEN chunks[n] ELSE TextFor(n - 1)])

\* C3 as stated: resume correctness for every k >= 1 and 0 <= j <= k.
C3_ResumeAnyK ==
    (cpc = "returned" /\ NoFailure /\ total >= 1 /\ start_chunk \in 0..total)
        => ResumeOutcome

\* C3, amended: resume correctness for every k >= 2 and 0 <= j <= k; a
\* transcript of one chunk is sent once whatever start_chunk is.
C3_Resume ==
    /\ (cpc = "returned" /\ NoFailure /\ total >= 2 /\ start_chunk \in 0..total)
          => ResumeOutcome
    /\ (cpc = "returned" /\ total = 1) => SentCount(0) = 1

C3_Witness ==
    /\ cpc = "returned"
    /\ NoFailure
    /\ total >= 2
    /\ start_chunk > 0
    /\ start_chunk < total
    /\ Len(calls) = total - start_chunk

\* C5: a transcript of 1 to CHUNK_SIZE_WORDS words is one chunk, and
\* clean_transcript sends exactly one call, the whole text to the cleanup
\* model, and returns that call's text with completed = total = 1.
C5_SingleSegment ==
    (Len(Split(raw_text)) \in 1..CHUNK_SIZE_WORDS /\ cpc # "entry") =>
        /\ total = 1
        /\ Len(calls) <= 1
        /\ cpc \in {"returned", "raised"} =>
              /\ Len(calls) = 1
              /\ calls[1].model = CLEANUP_MODEL
              /\ calls[1].prompt = Prompt("whole", chunks[1])
              /\ Split(calls[1].prompt.body) = Split(raw_text)
        /\ cpc = "returned" =>
              ret = [text |-> calls[1].text, completed |-> 1, total |-> 1]

C5_Witness ==
    /\ Len(Split(raw_text)) = CHUNK_SIZE_WORDS
    /\ cpc = "returned"
    /\ Len(calls) = 1
    /\ ret.completed = 1

\* C6: with k >= 2 chunks, start_chunk = 0 and no failing call,
\* clean_transcript returns completed = total = k and the k returned texts,
\* in chunk order, joined by a blank line; the example "a b c d e f" with two
\* words per chunk and an upper-casing service gives A B, C D, E F.
C6_Completed ==
    (cpc = "returned" /\ total >= 2 /\ start_chunk = 0 /\ NoFailure) =>
        /\ ret.completed = total
        /\ ret.total = total
        /\ Len(calls) = total
        /\ \A m \in 1..total :
              /\ calls[m].index = m - 1
              /\ calls[m].prompt.body = chunks[m]
        /\ ret.text = Join(<<"\n", "\n">>, [m \in 1..total |-> calls[m].text])
        /\ (/\ raw_text = Example
            /\ CHUNK_SIZE_WORDS = 2
            /\ \A m \in 1..total : calls[m].text = Upper(calls[m].prompt.body))
              => /\ chunks = << <<"a", " ", "b">>, <<"c", " ", "d">>,
                               <<"e", " ", "f">> >>
                 /\ cleaned_parts = << <<"A", " ", "B">>, <<"C", " ", "D">>,
                                      <<"E", " ", "F">> >>
                 /\ ret.completed = 3
                 /\ ret.total = 3
                 /\ ret.text = <<"A", " ", "B", "\n", "\n", "C", " ", "D",
                                 "\n", "\n", "E", " ", "F">>

C6_Witness ==
    /\ cpc = "returned"
    /\ total >= 2
    /\ start_chunk = 0
    /\ NoFailure
    /\ Len(calls) = total
    /\ \E m \in 1..total : calls[m].text # Upper(calls[m].prompt.body)

\* C7: a call of call_claude that fails, whatever the failure, leaves the
\* four counters of the ledger as they were before the call.
C7_FailedCallRecordsNothing ==
    [][(Len(calls') = Len(calls) + 1 /\ calls'[Len(calls')].raised # "none")
          => tracker' = tracker]_vars

(* ----------------------- split_into_chunks alone ----------------------- *)

\* split_into_chunks(raw_text, chunk_size); range() raises ValueError when
\* its step is zero.
SplitApply ==
    /\ cpc = "split"
    /\ IF chunk_size = 0
       THEN /\ cpc' = "raised"
            /\ exc' = "ValueError"
            /\ UNCHANGED chunks
       ELSE /\ chunks' = split_into_chunks(raw_text, chunk_size)
            /\ cpc' = "split_done"
            /\ UNCHANGED exc
    /\ UNCHANGED <<tracker, pc, args, raw_text, chunk_size, start_chunk,
                   cleaned_parts, i, ret, transcript, files, calls, told, run,
                   reported>>

InitSplit ==
    /\ tracker = NewTracker
    /\ pc = "none"
    /\ cpc = "split"
    /\ args = NoArgs
    /\ raw_text \in TextsUpTo(MaxLen)
    /\ chunk_size \in -1..MaxChunk
    /\ start_chunk = 0
    /\ chunks = <<>>
    /\ cleaned_parts = <<>>
    /\ i = 0
    /\ ret = NoRet
    /\ exc = "none"
    /\ transcript = <<>>
    /\ files = NoFiles
    /\ calls = <<>>
    /\ told = <<NoTold>>
    /\ run = 1
    /\ reported = NoReport

SpecSplit == InitSplit /\ [][SplitApply]_vars

\* The words of all the texts of a list, in order.
RECURSIVE WordsOfAll(_)
WordsOfAll(parts) ==
    IF parts = <<>> THEN <<>>
    ELSE Split(Head(parts)) \o WordsOfAll(Tail(parts))

\* C4: for every text and chunk size N > 0, the words of the chunks, taken
\* in order, are the words of the text, and no chunk has more than N words.
C4_ChunkCoverage ==
    (cpc = "split_done" /\ chunk_size > 0) =>
        /\ WordsOfAll(chunks) = Split(raw_text)
        /\ \A n \in 1..Len(chunks) : Len(Split(chunks[n])) <= chunk_size

C4_Witness ==
    /\ cpc = "split_done"
    /\ chunk_size > 1
    /\ Len(chunks) >= 2
    /\ Len(Split(raw_text)) % chunk_size # 0
    /\ raw_text[1] \in Whitespace

(* --------------------------- the ledger alone -------------------------- *)

\* tracker.add(usage, model) with any counts, negative ones included.
LedgerAdd ==
    /\ cpc = "ledger"
    /\ i < MaxAdds
    /\ \E a \in -1..MaxTok, b \in -1..MaxTok, model \in {CLEANUP_MODEL, SMART_MODEL} :
          tracker' = TrackerAdd(tracker, [input_tokens |-> a, output_tokens |-> b],
                                model)
    /\ i' = i + 1
    /\ UNCHANGED <<pc, cpc, args, raw_text, chunk_size, start_chunk, chunks,
                   cleaned_parts, ret, exc, transcript, files, calls, told, run,
                   reported>>

InitLedger ==
    /\ tracker = NewTracker
    /\ pc = "none"
    /\ cpc = "ledger"
    /\ args = NoArgs
    /\ raw_text = <<>>
    /\ chunk_size = CHUNK_SIZE_WORDS
    /\ start_chunk = 0
    /\ chunks = <<>>
    /\ cleaned_parts = <<>>
    /\ i = 0
    /\ ret = NoRet
    /\ exc = "none"
    /\ transcript = <<>>
    /\ files = NoFiles
    /\ calls = <<>>
    /\ told = <<NoTold>>
    /\ run = 1
    /\ reported = NoReport

\* tracker.report() on the ledger alone: the totals and total_cost().
LedgerReport ==
    /\ cpc = "ledger"
    /\ reported' = Report(tracker)
    /\ UNCHANGED <<tracker, pc, cpc, args, raw_text, chunk_size, start_chunk,
                   chunks, cleaned_parts, i, ret, exc, transcript, files, calls,
                   told, run>>

SpecLedger == InitLedger /\ [][LedgerAdd \/ LedgerReport]_vars

Counters == {"haiku_input", "haiku_output", "sonnet_input", "sonnet_output"}

\* C8: over any sequence of add calls no total of the ledger decreases, a
\* call with negative counts included.
C8_MonotonicLedger ==
    [][\A c \in Counters : tracker'[c] >= tracker[c]]_vars

(* -------------------------------- main --------------------------------- *)

ArgSets ==
    [raw : BOOLEAN, explain : BOOLEAN, summary : BOOLEAN, tldr : BOOLEAN,
     from_raw : BOOLEAN, has_key : BOOLEAN]

\* The command the "To resume" message gives: --from-raw and no other flag.
ResumeArgs == {[NoArgs EXCEPT !.from_raw = TRUE, !.has_key = k] : k \in BOOLEAN}

\* output_path.write_text(text)
save_and_print(fs, name, text) == [fs EXCEPT ![name] = text]

\* A mutant: the handler of anthropic.APIError removes the transcript.
ExceptAPIError_cleanup(fs) == [fs EXCEPT !["md"] = NoFile]

\* except anthropic.APIError in main: two messages and sys.exit(1).
ExceptAPIError(fs) == fs

\* Where main goes when a call inside its try block raises.
AfterRaise(e) == IF e = "APIError" THEN "exit1" ELSE "crash"

\* The --from-raw branch or the fetch from YouTube, up to raw_text.
MainLoad ==
    /\ pc = "start"
    /\ \/ /\ args.from_raw
          /\ files["raw"] = NoFile
          /\ pc' = "exit1"
          /\ UNCHANGED raw_text
       \/ /\ args.from_raw
          /\ files["raw"] # NoFile
          /\ raw_text' = files["raw"]
          /\ pc' = "loaded"
       \/ /\ ~args.from_raw
          /\ \E text \in RawTexts : raw_text' = text
          /\ pc' = "loaded"
       \/ /\ ~args.from_raw
          /\ pc' = "exit1"
          /\ UNCHANGED raw_text
    /\ UNCHANGED <<tracker, cpc, args, chunk_size, start_chunk, chunks,
                   cleaned_parts, i, ret, exc, transcript, files, calls, told,
                   run, reported>>

\* raw_path.write_text(raw_text); check_api_key() when Claude is needed.
MainSaveRaw ==
    /\ pc = "loaded"
    /\ files' = [files EXCEPT !["raw"] = raw_text]
    /\ LET needs_claude ==
               ~args.raw \/ args.explain \/ args.summary \/ args.tldr
       IN  pc' = IF needs_claude /\ ~args.has_key THEN "exit1" ELSE "try"
    /\ UNCHANGED <<tracker, cpc, args, raw_text, chunk_size, start_chunk, chunks,
                   cleaned_parts, i, ret, exc, transcript, calls, told, run,
                   reported>>

\* if args.raw: transcript = raw_text; else: clean_transcript(raw_text)
MainTry ==
    /\ pc = "try"
    /\ IF args.raw
       THEN /\ transcript' = raw_text
            /\ pc' = "save"
            /\ UNCHANGED <<cpc, start_chunk>>
       ELSE /\ cpc' = "entry"
            /\ start_chunk' = 0
            /\ pc' = "cleaning"
            /\ UNCHANGED transcript
    /\ UNCHANGED <<tracker, args, raw_text, chunk_size, chunks, cleaned_parts, i,
                   ret, exc, files, calls, told, run, reported>>

\* transcript, completed, total = ...; the "Partial cleanup" message.
MainCleanReturned ==
    /\ pc = "cleaning"
    /\ cpc = "returned"
    /\ transcript' = ret.text
    /\ told' = IF ret.completed < ret.total
               THEN [told EXCEPT ![run] =
                        [completed |-> ret.completed, total |-> ret.total]]
               ELSE told
    /\ pc' = "save"
    /\ cpc' = "idle"
    /\ UNCHANGED <<tracker, args, raw_text, chunk_size, start_chunk, chunks,
                   cleaned_parts, i, ret, exc, files, calls, run, reported>>

\* clean_transcript raised: the handler of main, or no handler at all.
MainCleanRaised ==
    /\ pc = "cleaning"
    /\ cpc = "raised"
    /\ pc' = AfterRaise(exc)
    /\ files' = IF exc = "APIError" THEN ExceptAPIError(files) ELSE files
    /\ cpc' = "idle"
    /\ UNCHANGED <<tracker, args, raw_text, chunk_size, start_chunk, chunks,
                   cleaned_parts, i, ret, exc, transcript, calls, told, run,
                   reported>>

\* save_and_print(transcript, transcript_path, "Transcript")
MainSaveTranscript ==
    /\ pc = "save"
    /\ files' = save_and_print(files, "md", transcript)
    /\ pc' = "explain"
    /\ UNCHANGED <<tracker, cpc, args, raw_text, chunk_size, start_chunk, chunks,
                   cleaned_parts, i, ret, exc, transcript, calls, told, run,
                   reported>>

\* One of the three optional outputs: the call on the transcript, then the
\* save; an exception of the call leaves the try block before the save.
Derived(stage, wanted, name, next) ==
    /\ pc = stage
    /\ IF ~wanted
       THEN /\ pc' = next
            /\ UNCHANGED <<tracker, files, calls>>
       ELSE LET prompt == Prompt(stage, transcript)
            IN  \E resp \in Responses(prompt) :
                  LET r == call_claude(tracker, resp, SMART_MODEL)
                  IN  /\ tracker' = r.tracker
                      /\ calls' = Append(calls, LogEntry(-1, prompt, SMART_MODEL, r))
                      /\ files' =
                            CASE r.raised = "none" ->
                                    save_and_print(files, name, r.text)
                              [] r.raised = "APIError" -> ExceptAPIError(files)
                              [] OTHER -> files
                      /\ pc' = IF r.raised = "none" THEN next
                               ELSE AfterRaise(r.raised)
    /\ UNCHANGED <<cpc, args, raw_text, chunk_size, start_chunk, chunks,
                   cleaned_parts, i, ret, exc, transcript, told, run, reported>>

\* if args.explain: explain_transcript, save
MainExplain == Derived("explain", args.explain, "explained", "summary")

\* if args.summary: summarize_transcript, save
MainSummary == Derived("summary", args.summary, "summary", "tldr")

\* if args.tldr: tldr_transcript, save
MainTldr == Derived("tldr", args.tldr, "tldr", "report")

\* tracker.report()
MainReport ==
    /\ pc = "report"
    /\ reported' = Report(tracker)
    /\ pc' = "done"
    /\ UNCHANGED <<tracker, cpc, args, raw_text, chunk_size, start_chunk, chunks,
                   cleaned_parts, i, ret, exc, transcript, files, calls, told,
                   run>>

Ended == pc \in {"done", "exit1", "crash"}

\* The user follows a "To resume ... run: yt-transcript --from-raw" message:
\* a new process, with a new ledger, over the files the last one left.
MainResume ==
    /\ Ended
    /\ run < MaxRuns
    /\ told[run] # NoTold
    /\ run' = run + 1
    /\ told' = Append(told, NoTold)
    /\ args' \in ResumeArgs
    /\ tracker' = NewTracker
    /\ pc' = "start"
    /\ cpc' = "idle"
    /\ raw_text' = <<>>
    /\ start_chunk' = 0
    /\ chunks' = <<>>
    /\ cleaned_parts' = <<>>
    /\ i' = 0
    /\ ret' = NoRet
    /\ exc' = "none"
    /\ transcript' = <<>>
    /\ calls' = <<>>
    /\ reported' = NoReport
    /\ UNCHANGED <<chunk_size, files>>

Init ==
    /\ tracker = NewTracker
    /\ pc = "start"
    /\ cpc = "idle"
    /\ args \in ArgSets
    /\ raw_text = <<>>
    /\ chunk_size = CHUNK_SIZE_WORDS
    /\ start_chunk = 0
    /\ chunks = <<>>
    /\ cleaned_parts = <<>>
    /\ i = 0
    /\ ret = NoRet
    /\ exc = "none"
    /\ transcript = <<>>
    /\ files = NoFiles
    /\ calls = <<>>
    /\ told = <<NoTold>>
    /\ run = 1
    /\ reported = NoReport

Next ==
    \/ MainLoad
    \/ MainSaveRaw
    \/ MainTry
    \/ CleanBegin
    \/ CleanSingle
    \/ CleanLoop
    \/ CleanFinish
    \/ MainCleanReturned
    \/ MainCleanRaised
    \/ MainSaveTranscript
    \/ MainExplain
    \/ MainSummary
    \/ MainTldr
    \/ MainReport
    \/ MainResume

Spec == Init /\ [][Next]_vars

(* -------------------------- properties of main ------------------------- *)

CleanupCall(c) == c.prompt.instr \in {"whole", "segment"}

\* C9: a partial outcome is reported as completed = f of total = k, and the
\* process started by the reported resume command sends only chunks f..k-1.
C9_ResumeSendsOnlyRest ==
    /\ told[run] # NoTold =>
          /\ told[run].completed < told[run].total
          /\ told[run].total = total
    /\ (run >= 2 /\ told[run - 1] # NoTold) =>
          \A m \in 1..Len(calls) :
              CleanupCall(calls[m]) => calls[m].index >= told[run - 1].completed

\* C10: a step in which explain, summarize or digest fails leaves every
\* file of the output directory as it was, and so does the rest of the run.
C10_DerivedFailureKeepsOutputs ==
    [][/\ (pc \in {"explain", "summary", "tldr"} /\ pc' \in {"exit1", "crash"})
            => files' = files
       /\ Ended => files' = files]_vars

C10_Witness ==
    /\ pc \in {"exit1", "crash"}
    /\ LastCallFailed
    /\ calls[Len(calls)].prompt.instr = "summary"
    /\ files["md"] # NoFile
    /\ files["md"] = transcript
    /\ files["explained"] = <<"explain">>

DerivedStages == {"explain", "summary", "tldr"}

\* The outputs the command line asked for.
Requested ==
    {s \in DerivedStages :
        \/ s = "explain" /\ args.explain
        \/ s = "summary" /\ args.summary
        \/ s = "tldr" /\ args.tldr}

\* C11: in a run where a derived call fails with a service error, every
\* other requested derived transform is still invoked.
C11_OtherDerivedStillRun ==
    (Ended /\ \E m \in 1..Len(calls) :
                 calls[m].prompt.instr \in DerivedStages
                 /\ calls[m].raised = "APIError")
        => \A s \in Requested :
              \E m \in 1..Len(calls) : calls[m].prompt.instr = s

(* ------------------ more properties of clean_transcript ---------------- *)

\* Chunk index n was sent and its call returned a text.
Transformed(n) ==
    \E m \in 1..Len(calls) : calls[m].index = n /\ calls[m].raised = "none"

\* What every returned outcome satisfies whatever start_chunk is, but for
\* the contents of the parts below completed.
OutcomeShape ==
    /\ ret.completed <= ret.total
    /\ ret.total = total
    /\ ret.text = IF total = 1 THEN TextFor(0)
                  ELSE Join(<<"\n", "\n">>, cleaned_parts)
    /\ ret.completed < ret.total =>
          /\ LastCallFailed
          /\ calls[Len(calls)].index = ret.completed
          /\ Len(cleaned_parts) = ret.completed

\* C12 as stated: in every returned outcome completed <= total, and when
\* completed < total a call failed at index completed and every index below
\* it holds a successful transform, in order and without gap.
C12_AllTransformed ==
    cpc = "returned" =>
        /\ OutcomeShape
        /\ ret.completed < ret.total =>
              \A n \in 0..(ret.completed - 1) :
                  Transformed(n) /\ cleaned_parts[n + 1] = TextFor(n)

\* C12, amended: as above, but an index below start_chunk holds the raw text
\* of its chunk, carried through, and only the others a successful transform.
C12_Outcome ==
    cpc = "returned" =>
        /\ OutcomeShape
        /\ ret.completed < ret.total =>
              \A n \in 0..(ret.completed - 1) :
                  IF n < start_chunk
                  THEN SentCount(n) = 0 /\ cleaned_parts[n + 1] = chunks[n + 1]
                  ELSE Transformed(n) /\ cleaned_parts[n + 1] = TextFor(n)

C12_Witness ==
    /\ cpc = "returned"
    /\ ret.completed < ret.total
    /\ start_chunk >= 1
    /\ ret.completed > start_chunk
    /\ cleaned_parts[1] = chunks[1]

(* ------------------------ more properties of main ---------------------- *)

\* C13: a run in which at least one transform call completed ends with the
\* report of the ledger's totals and cost, also when a later call fails.
C13_CostReported ==
    (Ended /\ \E m \in 1..Len(calls) : calls[m].raised = "none")
        => reported = Report(tracker)

(* ------------------- more properties of split_into_chunks -------------- *)

\* C14: split_into_chunks with chunk_size <= 0 fails with an error instead
\* of returning a list, and leaves the ledger as it was.
C14_NonPositiveChunkSize ==
    (chunk_size <= 0 /\ cpc # "split") =>
        /\ cpc = "raised"
        /\ chunks = <<>>
        /\ tracker = NewTracker

(* --------------- order and termination of clean_transcript ------------- *)

Terminal == cpc \in {"returned", "raised"}

\* C15: within one run of clean_transcript the calls go out for strictly
\* ascending chunk indices, so each index at most once, and a call that
\* failed is the last one: the run has ended and sends nothing after it.
C15_OrderedStopOnFailure ==
    /\ \A m, n \in 1..Len(calls) : m < n => calls[m].index < calls[n].index
    /\ \A m \in 1..(Len(calls) - 1) : calls[m].raised = "none"
    /\ \A m \in 1..Len(calls) : SentCount(calls[m].index) = 1
    /\ LastCallFailed => Terminal

C15_Witness ==
    /\ Terminal
    /\ LastCallFailed
    /\ Len(calls) >= 2
    /\ total > Len(calls)

\* clean_transcript under the assumption of C16: the code runs on, and every
\* call to the service returns or fails.
SpecCleanLive == InitClean /\ [][CleanNext]_vars /\ WF_vars(CleanNext)

Completed == cpc = "returned" /\ ret.completed = ret.total

PartiallyFailed ==
    cpc = "returned" /\ ret.completed >= 0 /\ ret.completed < ret.total

Propagated == cpc = "raised" /\ exc # "none" /\ ret = NoRet

\* C16: every run of clean_transcript over k chunks ends, as exactly one of
\* completed, partially failed or a propagated error, after at most k
\* calls, and nothing happens after the end.
C16_Termination ==
    /\ <>Terminal
    /\ [](Len(calls) <= total)
    /\ [](Terminal =>
            /\ Completed \/ PartiallyFailed \/ Propagated
            /\ ~(Completed /\ PartiallyFailed)
            /\ ~(Completed /\ Propagated)
            /\ ~(PartiallyFailed /\ Propagated))
    /\ [][Terminal => UNCHANGED vars]_vars

C16_Witness ==
    /\ PartiallyFailed
    /\ Len(calls) = total
    /\ total >= 2

(* ----------------------- properties of the ledger ---------------------- *)

\* The sum of a usage field over the successful calls to a model among the
\* first n calls of the log.
RECURSIVE SumUsage(_, _, _)
SumUsage(model, field, n) ==
    IF n = 0 THEN 0
    ELSE SumUsage(model, field, n - 1)
         + (IF calls[n].model = model /\ calls[n].raised = "none"
            THEN calls[n].usage[field] ELSE 0)

\* C17: cleanup calls are recorded under the cleanup model and the derived
\* calls under the smart model, and after any sequence of calls each
\* counter is the sum of the counts of the successful calls of its class.
C17_UsageAttribution ==
    /\ \A m \in 1..Len(calls) :
          calls[m].model = IF CleanupCall(calls[m]) THEN CLEANUP_MODEL
                           ELSE SMART_MODEL
    /\ tracker.haiku_input = SumUsage(CLEANUP_MODEL, "input_tokens", Len(calls))
    /\ tracker.haiku_output = SumUsage(CLEANUP_MODEL, "output_tokens", Len(calls))
    /\ tracker.sonnet_input = SumUsage(SMART_MODEL, "input_tokens", Len(calls))
    /\ tracker.sonnet_output = SumUsage(SMART_MODEL, "output_tokens", Len(calls))

\* The report that belongs to the ledger values t: the two sums, and the
\* cost at 0.80, 4.00, 3.00 and 15.00 per million tokens.
ExpectedReport(t) ==
    [total_in |-> t.haiku_input + t.sonnet_input,
     total_out |-> t.haiku_output + t.sonnet_output,
     cost |-> (t.haiku_input * HAIKU_INPUT_COST)
              + (t.haiku_output * HAIKU_OUTPUT_COST)
              + (t.sonnet_input * SONNET_INPUT_COST)
              + (t.sonnet_output * SONNET_OUTPUT_COST)]

\* C18: a report (with its cost estimate) leaves the four counters as they
\* are and its result is determined by the counters alone, so a second one
\* with no add call in between gives the same result.
C18_CostIsPure ==
    [][(cpc = "ledger" /\ i' = i) =>
          /\ tracker' = tracker
          /\ reported' = ExpectedReport(tracker)
          /\ reported = ExpectedReport(tracker) => reported' = reported]_vars

C18_Witness ==
    /\ cpc = "ledger"
    /\ i >= 2
    /\ tracker.haiku_input > 0
    /\ tracker.haiku_output > tracker.haiku_input
    /\ tracker.sonnet_output > 0
    /\ reported = ExpectedReport(tracker)

(* --------------- empty input and out-of-range resume points ------------ *)

\* C19: an empty or whitespace-only transcript has no chunk, and
\* clean_transcript sends no call, leaves the ledger as it is and returns
\* the empty document with completed = total = 0.
C19_EmptyInput ==
    (Split(raw_text) = <<>> /\ cpc # "entry") =>
        /\ chunks = <<>>
        /\ calls = <<>>
        /\ tracker = NewTracker
        /\ cpc \in {"loop", "returned"}
        /\ cpc = "returned" => ret = [text |-> <<>>, completed |-> 0, total |-> 0]

C19_Witness ==
    /\ raw_text = <<" ", "\n">>
    /\ cpc = "returned"
    /\ ret.total = 0

\* A run of clean_transcript over several chunks that carries nothing
\* through: call m is for chunk m - 1, the parts are the texts returned, and
\* the outcome is complete, or partial at the index of the failed call.
FromZero ==
    /\ \A m \in 1..Len(calls) :
          /\ calls[m].index = m - 1
          /\ calls[m].prompt = Prompt("segment", chunks[m])
    /\ i = Len(cleaned_parts)
    /\ Len(cleaned_parts) = Cardinality({m \in 1..Len(calls) : calls[m].raised = "none"})
    /\ \A m \in 1..Len(cleaned_parts) : cleaned_parts[m] = calls[m].text
    /\ cpc = "returned" =>
          ret = [text |-> Join(<<"\n", "\n">>, cleaned_parts),
                 completed |-> IF NoFailure THEN total ELSE Len(calls) - 1,
                 total |-> total]

\* C20: with k >= 2 chunks and start_chunk >= k, clean_transcript sends no
\* call and returns completed = total = k and the k raw chunks joined by a
\* blank line; a start_chunk below 0 behaves as start_chunk = 0 does.
C20_OutOfRangeResume ==
    /\ (total >= 2 /\ start_chunk >= total) =>
          /\ calls = <<>>
          /\ tracker = NewTracker
          /\ cpc \in {"loop", "returned"}
          /\ cpc = "returned" =>
                ret = [text |-> Join(<<"\n", "\n">>, chunks),
                       completed |-> total, total |-> total]
    /\ (total >= 2 /\ start_chunk <= 0) => FromZero

C20_Witness ==
    /\ total >= 2
    /\ start_chunk > total
    /\ cpc = "returned"
    /\ ret.completed = total
    /\ Len(cleaned_parts) = total

====
